---- MODULE Spec2Model ----
(***************************************************************************)
(* Order-book connectors: kucoin50.js, binance20.js, bitmex25.js and the   *)
(* Kraken script (src/unnamed/part_000).  Each script is one process that  *)
(* keeps a local order book from a snapshot plus incremental WebSocket     *)
(* messages and hands rows to a ClickHouse sink.  The scripts share no     *)
(* state, so a behaviour of this module runs exactly one of them: `venue`  *)
(* is fixed by Init.                                                       *)
(*                                                                         *)
(* Prices and sizes arrive as canonical decimal strings (one rendering per *)
(* number), so string equality on them coincides with numeric equality;    *)
(* they are modelled by the numbers they denote.                           *)
(***************************************************************************)
EXTENDS Integers, Sequences, FiniteSets, TLC

(* ---------------------------- bounds ----------------------------------- *)
MaxPrice == 2       \* prices on the wire are 1..MaxPrice
MaxSize == 2        \* non-zero sizes on the wire are 1..MaxSize
MaxBatch == 2       \* events in one update message (both sides together)
MaxNumLevel == 2    \* config.<venue>.numLevel is drawn from 1..MaxNumLevel
KucoinDepth == 2    \* stands for the 50 of slice(0, 50) in kucoin50.js
MaxId == 2          \* BitMEX order ids are 1..MaxId
MaxBook == 2        \* entries the array books (Binance, BitMEX) grow to
MaxClock == 2       \* messages timestamped in one run; the k-th reads time k
MaxTasks == 2       \* insert calls that can be awaiting the sink at once

(* the size that means "delete": "0" (Kucoin), "0.00000000" (Binance, Kraken) *)
ZeroSize == 0

Venues == {"Kucoin", "Binance", "Kraken", "BitMEX"}
Prices == 1..MaxPrice
\* Kucoin gets one price more than it stores, so that slice(0, 50) cuts
KucoinPrices == 1..(KucoinDepth + 1)
Sizes == 1..MaxSize

VARIABLES
    venue,                  \* which script this behaviour runs
    cfgNumLevels,           \* config.<venue>.numLevel
    cfgVolumeFlag,          \* config.<venue>.baseVolume
    orderBook,              \* the script's global book (shape depends on venue)
    lastInsertedOrderBook,  \* bitmex25.js: <<>> is undefined, <<b>> a deep copy b
    snapshotApplied,        \* a snapshot has been applied to orderBook
    early,                  \* an update was applied before any snapshot
    pc,                     \* "idle": waiting for an event; "handled": a callback just ran
    msg,                    \* the message that callback received
    preBook,                \* orderBook when it was called
    preLast,                \* lastInsertedOrderBook when it was called
    threw,                  \* it ended in an exception
    inserted,               \* it called insert and got past insert's gate
    rows,                   \* the rows insert built from the book
    flagValid,              \* config.<venue>.baseVolume is true or false
    clock,                  \* what moment() read in the last message handler
    tasks,                  \* insert calls suspended at an await on the sink
    maxTs,                  \* the highest timestamp handed to the sink so far
    crashed,                \* the process has terminated
    lastFailed,             \* the write of lastInsertedOrderBook's rows failed
    out,                    \* what the step just taken did at the sink
    reference               \* the levels received so far, kept without any cut

vars == <<venue, cfgNumLevels, cfgVolumeFlag, orderBook, lastInsertedOrderBook,
          snapshotApplied, early, pc, msg, preBook, preLast, threw, inserted, rows,
          flagValid, clock, tasks, maxTs, crashed, lastFailed, out, reference>>

\* the state of the sink side, which the handlers' effect on the book never reads
sinkVars == <<flagValid, clock, tasks, maxTs, crashed, lastFailed, out>>

\* everything the handlers' effect on the book neither reads nor writes
offBook == <<sinkVars, reference>>

config == <<venue, cfgNumLevels, cfgVolumeFlag>>

(* ------------------------- sequences ----------------------------------- *)
Range(s) == {s[i] : i \in 1..Len(s)}

\* Array.prototype.slice(0, n)
Slice(s, n) == IF Len(s) <= n THEN s ELSE SubSeq(s, 1, n)

\* Array.prototype.filter
Filter(s, Keep(_)) ==
    LET f[i \in 0..Len(s)] ==
            IF i = 0 THEN <<>>
            ELSE IF Keep(s[i]) THEN Append(f[i - 1], s[i]) ELSE f[i - 1]
    IN f[Len(s)]

\* Array.prototype.findIndex, 1-based; 0 when nothing matches (JS: -1)
FindIndex(s, Test(_)) ==
    IF \E i \in 1..Len(s) : Test(s[i])
    THEN CHOOSE i \in 1..Len(s) : Test(s[i]) /\ \A j \in 1..(i - 1) : ~Test(s[j])
    ELSE 0

\* Array.prototype.splice(index, 1)
Splice(s, i) == SubSeq(s, 1, i - 1) \o SubSeq(s, i + 1, Len(s))

\* x put into the sorted sequence s behind the leading elements that do not
\* come after it: the step of a stable sort.  Cmp(a, b) is the comparator's value.
InsertStable(x, s, Cmp(_, _)) ==
    LET k == Cardinality({j \in 1..Len(s) : \A i \in 1..j : Cmp(s[i], x) <= 0})
    IN SubSeq(s, 1, k) \o <<x>> \o SubSeq(s, k + 1, Len(s))

\* Array.prototype.sort(comparator), which is stable; _.orderBy is stable too
SortBy(s, Cmp(_, _)) ==
    LET f[i \in 0..Len(s)] ==
            IF i = 0 THEN <<>> ELSE InsertStable(s[i], f[i - 1], Cmp)
    IN f[Len(s)]

(* ------------------------- volumes ------------------------------------- *)
RECURSIVE Gcd(_, _)
Gcd(a, b) == IF b = 0 THEN a ELSE Gcd(b, a % b)

\* the number n / d in lowest terms, as <<numerator, denominator>> with the
\* sign in the numerator; a denominator of 0 is JS's Infinity (n > 0): the
\* division raises nothing
Quot(n, d) ==
    LET g == Gcd(n, IF d < 0 THEN 0 - d ELSE d)
    IN IF g = 0 THEN <<n, d>>
       ELSE IF d < 0 THEN <<0 - (n \div g), (0 - d) \div g>>
       ELSE <<n \div g, d \div g>>
Num(n) == <<n, 1>>

Row(level, type, price, volume) ==
    [order_level |-> level, order_type |-> type, price |-> price, volume |-> volume]

(* ------------------------- wire messages ------------------------------- *)
SeqsUpTo(S, n) == UNION {[1..k -> S] : k \in 0..n}

\* a REST / as-bs snapshot over the prices P, as the venues send it: [price,
\* size] entries, best price first, one entry per price
SnapshotsOver(P) ==
    LET Side(type) ==
            {s \in SeqsUpTo(P \X Sizes, Cardinality(P)) :
                \A i \in 1..(Len(s) - 1) :
                    IF type = "asks" THEN s[i][1] < s[i + 1][1]
                    ELSE s[i][1] > s[i + 1][1]}
    IN [asks : Side("asks"), bids : Side("bids")]

\* an update message over the prices P: the ask events and the bid events,
\* each in wire order; a size of ZeroSize deletes
UpdateMsgsOver(P) ==
    LET Events == SeqsUpTo(P \X (Sizes \cup {ZeroSize}), MaxBatch)
    IN {m \in [asks : Events, bids : Events] :
            Len(m.asks) + Len(m.bids) \in 1..MaxBatch}

Snapshots == SnapshotsOver(Prices)
UpdateMsgs == UpdateMsgsOver(Prices)
KucoinSnapshots == SnapshotsOver(KucoinPrices)
KucoinUpdateMsgs == UpdateMsgsOver(KucoinPrices)

NoMsg == [type |-> "none"]
SnapshotMsg(s) == [type |-> "snapshot", asks |-> s.asks, bids |-> s.bids]
UpdateMsg(m) == [type |-> "update", asks |-> m.asks, bids |-> m.bids]
OtherMsg == [type |-> "other"]

\* a step that did nothing at the sink
NoOut ==
    [rows |-> <<>>,         \* the stamped rows it handed to chClient.querying
     expect |-> <<>>,       \* the same rows as built when their message was handled
     receivedAt |-> 0,      \* when the message that produced them was received
     prevMaxTs |-> 0,       \* maxTs before the step
     failed |-> FALSE,      \* a query of the sink failed
     rejected |-> FALSE,    \* the insert routine's promise was rejected
     unhandled |-> FALSE,   \* and nothing caught the rejection
     dropped |-> 0,         \* rows of the same call that will never be handed over
     preFailed |-> FALSE]   \* lastFailed before the step

\* a callback starts on message m: what it was called with is recorded
Called(m) ==
    /\ pc = "idle"
    /\ pc' = "handled"
    /\ msg' = m
    /\ preBook' = orderBook
    /\ preLast' = lastInsertedOrderBook

(* ============================ kucoin50.js ============================== *)
\* mutant: the ascending comparator for both sides
KucoinCmpAscending(type, a, b) == a[1] - b[1]

\* the comparator of levels.sort in handleOrderBook
KucoinCmp(type, a, b) == IF type = "asks" THEN a[1] - b[1] ELSE b[1] - a[1]

\* one pass of the changes.forEach body: filter / find / push, then sort and slice
KucoinChange(levels, type, change) ==
    LET price == change[1]
        size == change[2]
        Other(level) == level[1] # price
        Same(level) == level[1] = price
        existing == FindIndex(levels, Same)
        touched ==
            IF size = ZeroSize THEN Filter(levels, Other)
            ELSE IF existing > 0 THEN [levels EXCEPT ![existing] = <<price, size>>]
                 ELSE Append(levels, <<price, size>>)
        Cmp(a, b) == KucoinCmp(type, a, b)
    IN Slice(SortBy(touched, Cmp), KucoinDepth)

\* changes.forEach over one side of the message
KucoinSide(levels, type, changes) ==
    LET f[i \in 0..Len(changes)] ==
            IF i = 0 THEN levels ELSE KucoinChange(f[i - 1], type, changes[i])
    IN f[Len(changes)]

\* insertOrderBooktoDB's values: every stored bid, then every stored ask
KucoinRows(book) ==
    [i \in 1..Len(book.bids) |->
        Row(i, "bids", book.bids[i][1], Num(book.bids[i][2]))]
    \o [i \in 1..Len(book.asks) |->
        Row(i, "asks", book.asks[i][1], Num(book.asks[i][2]))]

\* the axios.get(REST_URL) response; the WebSocket is opened only after it
KucoinSnapshot(data) ==
    /\ venue = "Kucoin"
    /\ ~snapshotApplied
    /\ orderBook' = [asks |-> Slice(data.asks, KucoinDepth),
                     bids |-> Slice(data.bids, KucoinDepth)]
    /\ snapshotApplied' = TRUE
    /\ Called(SnapshotMsg(data))
    /\ threw' = FALSE
    /\ inserted' = FALSE
    /\ rows' = <<>>
    /\ UNCHANGED <<config, lastInsertedOrderBook, early>>

\* handleOrderBook on a trade.l2update message
KucoinUpdate(m) ==
    /\ venue = "Kucoin"
    /\ snapshotApplied
    /\ LET book == [asks |-> KucoinSide(orderBook.asks, "asks", m.asks),
                    bids |-> KucoinSide(orderBook.bids, "bids", m.bids)]
       IN /\ orderBook' = book
          /\ rows' = KucoinRows(book)
    /\ Called(UpdateMsg(m))
    /\ threw' = FALSE
    /\ inserted' = TRUE
    /\ UNCHANGED <<config, lastInsertedOrderBook, snapshotApplied, early>>

\* handleOrderBook on any other message (welcome, ack, pong)
KucoinOther ==
    /\ venue = "Kucoin"
    /\ snapshotApplied
    /\ Called(OtherMsg)
    /\ threw' = FALSE
    /\ inserted' = FALSE
    /\ rows' = <<>>
    /\ UNCHANGED <<config, orderBook, lastInsertedOrderBook, snapshotApplied, early>>

(* ============================ binance20.js ============================= *)
BinanceOrder(price, quantity, side) ==
    [price |-> price, quantity |-> quantity, side |-> side]

\* mutant: splice without the index > -1 test; splice(-1, 1) drops the last entry
BinanceChangeUnchecked(book, side, change) ==
    LET price == change[1]
        quantity == change[2]
        Same(order) == order.price = price /\ order.side = side
        index == FindIndex(book, Same)
    IN IF quantity = ZeroSize
       THEN IF index > 0 THEN Splice(book, index) ELSE Splice(book, Len(book))
       ELSE IF index > 0 THEN [book EXCEPT ![index].quantity = quantity]
            ELSE Append(book, [price |-> price, quantity |-> quantity, side |-> side])

\* mutant: findIndex by price alone, without order.side
BinanceChangeAnySide(book, side, change) ==
    LET price == change[1]
        quantity == change[2]
        Same(order) == order.price = price
        index == FindIndex(book, Same)
    IN IF quantity = ZeroSize
       THEN IF index > 0 THEN Splice(book, index) ELSE book
       ELSE IF index > 0 THEN [book EXCEPT ![index].quantity = quantity]
            ELSE Append(book, BinanceOrder(price, quantity, side))

\* one pass of a `for (const bid of message.bids)` / `message.asks` loop body
BinanceChange(book, side, change) ==
    LET price == change[1]
        quantity == change[2]
        Same(order) == order.price = price /\ order.side = side
        index == FindIndex(book, Same)
    IN IF quantity = ZeroSize
       THEN IF index > 0 THEN Splice(book, index) ELSE book
       ELSE IF index > 0 THEN [book EXCEPT ![index].quantity = quantity]
            ELSE Append(book, BinanceOrder(price, quantity, side))

BinanceLoop(book, side, changes) ==
    LET f[i \in 0..Len(changes)] ==
            IF i = 0 THEN book ELSE BinanceChange(f[i - 1], side, changes[i])
    IN f[Len(changes)]

\* the two loops of handleOrderBook: bids first, then asks
BinanceApply(book, m) ==
    BinanceLoop(BinanceLoop(book, "Buy", m.bids), "Sell", m.asks)

\* the bids / asks arrays of insertOrderBookToDB: filter, sort, slice
BinanceTop(book, side, n) ==
    LET OfSide(order) == order.side = side
        Cmp(a, b) == IF side = "Buy" THEN b.price - a.price ELSE a.price - b.price
    IN Slice(SortBy(Filter(book, OfSide), Cmp), n)

\* mutant: the two cases of the switch exchanged
BinanceVolumeSwapped(order, flag) ==
    IF flag THEN Num(order.price * order.quantity) ELSE Num(order.quantity)

\* the switch (cfgVolumeFlag) of insertOrderBookToDB
BinanceVolume(order, flag) ==
    IF flag THEN Num(order.quantity) ELSE Num(order.price * order.quantity)

\* the rows of the two insert loops: bids, then asks
BinanceRows(book, n, flag) ==
    LET bids == BinanceTop(book, "Buy", n)
        asks == BinanceTop(book, "Sell", n)
    IN [i \in 1..Len(bids) |->
            Row(i, "Bid", bids[i].price, BinanceVolume(bids[i], flag))]
       \o [i \in 1..Len(asks) |->
            Row(i, "Ask", asks[i].price, BinanceVolume(asks[i], flag))]

\* the axios.get(cfgREST_URL) response: pushes onto whatever the book holds
BinanceSnapshot(data) ==
    /\ venue = "Binance"
    /\ ~snapshotApplied
    /\ Len(orderBook) + Len(data.bids) + Len(data.asks) <= MaxBook
    /\ orderBook' = orderBook
            \o [i \in 1..Len(data.bids) |->
                    BinanceOrder(data.bids[i][1], data.bids[i][2], "Buy")]
            \o [i \in 1..Len(data.asks) |->
                    BinanceOrder(data.asks[i][1], data.asks[i][2], "Sell")]
    /\ snapshotApplied' = TRUE
    /\ Called(SnapshotMsg(data))
    /\ threw' = FALSE
    /\ inserted' = FALSE
    /\ rows' = <<>>
    /\ UNCHANGED <<config, lastInsertedOrderBook, early>>

\* handleOrderBook on a depth message; the listener is registered at start-up,
\* so this runs whether or not the REST response has arrived
BinanceUpdate(m) ==
    /\ venue = "Binance"
    /\ LET book == BinanceApply(orderBook, m)
       IN /\ Len(book) <= MaxBook
          /\ orderBook' = book
          /\ rows' = BinanceRows(book, cfgNumLevels, cfgVolumeFlag)
    /\ Called(UpdateMsg(m))
    /\ threw' = FALSE
    /\ inserted' = TRUE
    /\ early' = (early \/ ~snapshotApplied)
    /\ UNCHANGED <<config, lastInsertedOrderBook, snapshotApplied>>

\* handleOrderBook on a message without bids: `for (... of undefined)` throws
BinanceOther ==
    /\ venue = "Binance"
    /\ Called(OtherMsg)
    /\ threw' = TRUE
    /\ inserted' = FALSE
    /\ rows' = <<>>
    /\ UNCHANGED <<config, orderBook, lastInsertedOrderBook, snapshotApplied, early>>

(* ===================== Kraken (src/unnamed/part_000) =================== *)
\* {}: an object without keys
EmptyObject == [p \in {} |-> 0]

\* _.fromPairs: later pairs overwrite earlier ones with the same key
FromPairs(pairs) ==
    LET f[i \in 0..Len(pairs)] ==
            IF i = 0 THEN EmptyObject
            ELSE [p \in DOMAIN f[i - 1] \cup {pairs[i][1]} |->
                    IF p = pairs[i][1] THEN pairs[i][2] ELSE f[i - 1][p]]
    IN f[Len(pairs)]

\* _.toPairs: the [key, value] pairs of an object.  Their order is the
\* object's key order; every use sorts them by a key that is unique per pair.
RECURSIVE ToPairs(_)
ToPairs(obj) ==
    IF DOMAIN obj = {} THEN <<>>
    ELSE LET p == CHOOSE q \in DOMAIN obj : \A r \in DOMAIN obj : q <= r
         IN <<<<p, obj[p]>>>> \o ToPairs([r \in DOMAIN obj \ {p} |-> obj[r]])

\* one pass of a message[1].a.forEach / message[1].b.forEach body
KrakenChange(side, update) ==
    LET price == update[1]
        volume == update[2]
    IN IF volume = ZeroSize
       THEN [p \in DOMAIN side \ {price} |-> side[p]]
       ELSE [p \in DOMAIN side \cup {price} |-> IF p = price THEN volume ELSE side[p]]

KrakenSide(side, updates) ==
    LET f[i \in 0..Len(updates)] ==
            IF i = 0 THEN side ELSE KrakenChange(f[i - 1], updates[i])
    IN f[Len(updates)]

\* orderedBook: _.orderBy(_.toPairs(side), parseFloat(price), 'asc' | 'desc')
KrakenOrdered(book) ==
    LET Asc(a, b) == a[1] - b[1]
        Desc(a, b) == b[1] - a[1]
    IN [asks |-> SortBy(ToPairs(book.asks), Asc),
        bids |-> SortBy(ToPairs(book.bids), Desc)]

\* the switch (cfgVolumeFlag) of insertOrderBookToDB
KrakenVolume(price, volume, flag) ==
    IF flag THEN Num(volume) ELSE Num(volume * price)

\* orderbookData: the asks loop, then the bids loop
KrakenRows(ordered, n, flag) ==
    LET asks == Slice(ordered.asks, n)
        bids == Slice(ordered.bids, n)
    IN [i \in 1..Len(asks) |->
            Row(i, "ask", asks[i][1], KrakenVolume(asks[i][1], asks[i][2], flag))]
       \o [i \in 1..Len(bids) |->
            Row(i, "bid", bids[i][1], KrakenVolume(bids[i][1], bids[i][2], flag))]

\* the tail of handleOrderBook, which every message reaches
KrakenInsert(book) ==
    /\ rows' = KrakenRows(KrakenOrdered(book), cfgNumLevels, cfgVolumeFlag)
    /\ inserted' = TRUE
    /\ threw' = FALSE

\* handleOrderBook on a message with as and bs
KrakenSnapshot(data) ==
    /\ venue = "Kraken"
    /\ LET book == [asks |-> FromPairs(data.asks), bids |-> FromPairs(data.bids)]
       IN /\ orderBook' = book
          /\ KrakenInsert(book)
    /\ snapshotApplied' = TRUE
    /\ Called(SnapshotMsg(data))
    /\ UNCHANGED <<config, lastInsertedOrderBook, early>>

\* handleOrderBook on a message with a or b.  Kraken publishes the snapshot
\* first on the book channel, so updates are handled only after it.
KrakenUpdate(m) ==
    /\ venue = "Kraken"
    /\ snapshotApplied
    /\ LET book == [asks |-> KrakenSide(orderBook.asks, m.asks),
                    bids |-> KrakenSide(orderBook.bids, m.bids)]
       IN /\ orderBook' = book
          /\ KrakenInsert(book)
    /\ Called(UpdateMsg(m))
    /\ UNCHANGED <<config, lastInsertedOrderBook, snapshotApplied, early>>

\* handleOrderBook on any other message (heartbeat, systemStatus,
\* subscriptionStatus): neither branch is taken, the insert still runs
KrakenOther ==
    /\ venue = "Kraken"
    /\ KrakenInsert(orderBook)
    /\ Called(OtherMsg)
    /\ UNCHANGED <<config, orderBook, lastInsertedOrderBook, snapshotApplied, early>>

(* ============================ bitmex25.js ============================== *)
Ids == 1..MaxId
Sides == {"Buy", "Sell"}

\* orderBookL2_25 ids encode the price of their level: a higher id is a
\* lower price
PriceOfId(id) == MaxId + 1 - id

\* a row of a partial or of an insert
BitmexOrders ==
    {[id |-> i, side |-> s, size |-> z, price |-> PriceOfId(i)] :
        i \in Ids, s \in Sides, z \in Sizes}

\* a row of an update: the id and the fields that changed
BitmexUpdates ==
    {[id |-> i, size |-> z] : i \in Ids, z \in Sizes}
    \cup {[id |-> i, side |-> s] : i \in Ids, s \in Sides}

\* a row of a delete
BitmexDeletes == {[id |-> i] : i \in Ids}

\* a partial, and the data of one insert, hold each id once
DistinctIds(d) == \A i, j \in 1..Len(d) : i # j => d[i].id # d[j].id
BitmexPartials == {d \in SeqsUpTo(BitmexOrders, MaxBook) : DistinctIds(d)}
BitmexInserts == {d \in SeqsUpTo(BitmexOrders, MaxBatch) : d # <<>> /\ DistinctIds(d)}

NonEmpty(S) == {d \in S : d # <<>>}

BitmexMsg(action, data) == [type |-> action, data |-> data]

\* mutant: {...update, ...order}
SpreadReversed(order, update) ==
    [k \in DOMAIN order \cup DOMAIN update |->
        IF k \in DOMAIN order THEN order[k] ELSE update[k]]

\* {...order, ...update}
Spread(order, update) ==
    [k \in DOMAIN order \cup DOMAIN update |->
        IF k \in DOMAIN update THEN update[k] ELSE order[k]]

\* one pass of the `for (const update of updates)` body
BitmexChange(book, action, update) ==
    LET Same(item) == item.id = update.id
        index == FindIndex(book, Same)
    IN CASE action = "insert" -> Append(book, update)
         [] action = "update" ->
                IF index > 0 THEN [book EXCEPT ![index] = Spread(book[index], update)]
                ELSE book
         [] action = "delete" -> IF index > 0 THEN Splice(book, index) ELSE book
         [] OTHER -> book

BitmexApply(book, action, updates) ==
    LET f[i \in 0..Len(updates)] ==
            IF i = 0 THEN book ELSE BitmexChange(f[i - 1], action, updates[i])
    IN f[Len(updates)]

\* JSON.stringify of a book: every order's fields, in array order
JsonStringify(book) ==
    [i \in 1..Len(book) |->
        <<"id", book[i].id, "side", book[i].side, "size", book[i].size,
          "price", book[i].price>>]

\* JSON.parse of such a string
JsonParse(str) ==
    [i \in 1..Len(str) |->
        [id |-> str[i][2], side |-> str[i][4], size |-> str[i][6], price |-> str[i][8]]]

\* mutant: an undefined last book compared as if it were the empty book
BitmexSkipUndefinedAsEmpty(book, last) ==
    JsonStringify(book) = JsonStringify(IF last = <<>> THEN <<>> ELSE last[1])

\* the gate of insertOrderBookToDB: JSON.stringify(undefined) is undefined
BitmexSkip(book, last) ==
    last # <<>> /\ JsonStringify(book) = JsonStringify(last[1])

\* the bids / asks arrays of insertOrderBookToDB, sliced as the loops slice them
BitmexTop(book, side, n) ==
    LET OfSide(order) == order.side = side
        Cmp(a, b) == IF side = "Buy" THEN b.price - a.price ELSE a.price - b.price
    IN Slice(SortBy(Filter(book, OfSide), Cmp), n)

\* the switch (cfgVolumeFlag) of insertOrderBookToDB
BitmexVolume(order, flag) ==
    IF flag THEN Quot(order.size, order.price) ELSE Num(order.size)

\* the rows of the two insert loops: bids, then asks
BitmexRows(book, n, flag) ==
    LET bids == BitmexTop(book, "Buy", n)
        asks == BitmexTop(book, "Sell", n)
    IN [i \in 1..Len(bids) |->
            Row(i, "Bid", bids[i].price, BitmexVolume(bids[i], flag))]
       \o [i \in 1..Len(asks) |->
            Row(i, "Ask", asks[i].price, BitmexVolume(asks[i], flag))]

\* mutant: lastInsertedOrderBook assigned only once the writes are done
BitmexInsertAssignsLate(book) ==
    IF BitmexSkip(book, lastInsertedOrderBook)
    THEN /\ inserted' = FALSE
         /\ rows' = <<>>
         /\ UNCHANGED lastInsertedOrderBook
    ELSE /\ inserted' = TRUE
         /\ rows' = BitmexRows(book, cfgNumLevels, cfgVolumeFlag)
         /\ UNCHANGED lastInsertedOrderBook

\* insertOrderBookToDB(book, timestamp) up to its first await
BitmexInsert(book) ==
    IF BitmexSkip(book, lastInsertedOrderBook)
    THEN /\ inserted' = FALSE
         /\ rows' = <<>>
         /\ UNCHANGED lastInsertedOrderBook
    ELSE /\ inserted' = TRUE
         /\ rows' = BitmexRows(book, cfgNumLevels, cfgVolumeFlag)
         /\ lastInsertedOrderBook' = <<JsonParse(JsonStringify(book))>>

\* handleOrderBook on action 'partial'
BitmexPartial(data) ==
    /\ venue = "BitMEX"
    /\ orderBook' = data
    /\ BitmexInsert(data)
    /\ snapshotApplied' = TRUE
    /\ Called(BitmexMsg("partial", data))
    /\ threw' = FALSE
    /\ UNCHANGED <<config, early>>

\* handleOrderBook on table orderBookL2_25 with an action other than
\* 'partial'; BitMEX may deliver these before the partial
BitmexAction(action, data) ==
    /\ venue = "BitMEX"
    /\ action = "insert" => Len(orderBook) + Len(data) <= MaxBook
    /\ LET book == BitmexApply(orderBook, action, data)
       IN /\ orderBook' = book
          /\ BitmexInsert(book)
    /\ Called(BitmexMsg(action, data))
    /\ threw' = FALSE
    /\ early' = (early \/ ~snapshotApplied)
    /\ UNCHANGED <<config, snapshotApplied>>

\* handleOrderBook on a message of another table (info, subscribe reply)
BitmexOther ==
    /\ venue = "BitMEX"
    /\ Called(OtherMsg)
    /\ threw' = FALSE
    /\ inserted' = FALSE
    /\ rows' = <<>>
    /\ UNCHANGED <<config, orderBook, lastInsertedOrderBook, snapshotApplied, early>>

(* ============================ the system =============================== *)
\* the state after the script's top-level code has run
Loaded ==
    /\ venue \in Venues
    /\ cfgNumLevels \in 1..MaxNumLevel
    /\ cfgVolumeFlag \in IF venue = "Kucoin" THEN {FALSE} ELSE BOOLEAN  \* Kucoin reads none
    /\ orderBook = CASE venue = "Kucoin" -> [asks |-> <<>>, bids |-> <<>>]
                     [] venue = "Kraken" -> [asks |-> EmptyObject, bids |-> EmptyObject]
                     [] OTHER -> <<>>
    /\ lastInsertedOrderBook = <<>>
    /\ snapshotApplied = FALSE
    /\ early = FALSE
    /\ pc = "idle"
    /\ msg = NoMsg
    /\ preBook = <<>>
    /\ preLast = <<>>
    /\ threw = FALSE
    /\ inserted = FALSE
    /\ rows = <<>>
    /\ clock = 0
    /\ tasks = <<>>
    /\ maxTs = 0
    /\ crashed = FALSE
    /\ lastFailed = FALSE
    /\ out = NoOut
    /\ reference = [asks |-> EmptyObject, bids |-> EmptyObject]

Init == Loaded /\ flagValid = TRUE

\* the callback has returned to the event loop; what is recorded about it is dropped
Return ==
    /\ pc = "handled"
    /\ pc' = "idle"
    /\ msg' = NoMsg
    /\ preBook' = <<>>
    /\ preLast' = <<>>
    /\ threw' = FALSE
    /\ inserted' = FALSE
    /\ rows' = <<>>
    /\ UNCHANGED <<config, orderBook, lastInsertedOrderBook, snapshotApplied, early>>

\* script v is waiting for its next event
Idle(v) == pc = "idle" /\ venue = v

Next ==
    \/ Idle("Kucoin") /\ \E data \in KucoinSnapshots : KucoinSnapshot(data) /\ UNCHANGED offBook
    \/ Idle("Kucoin") /\ \E m \in KucoinUpdateMsgs : KucoinUpdate(m) /\ UNCHANGED offBook
    \/ KucoinOther /\ UNCHANGED offBook
    \/ Idle("Binance") /\ \E data \in Snapshots : BinanceSnapshot(data) /\ UNCHANGED offBook
    \/ Idle("Binance") /\ \E m \in UpdateMsgs : BinanceUpdate(m) /\ UNCHANGED offBook
    \/ BinanceOther /\ UNCHANGED offBook
    \/ Idle("Kraken") /\ \E data \in Snapshots : KrakenSnapshot(data) /\ UNCHANGED offBook
    \/ Idle("Kraken") /\ \E m \in UpdateMsgs : KrakenUpdate(m) /\ UNCHANGED offBook
    \/ KrakenOther /\ UNCHANGED offBook
    \/ Idle("BitMEX") /\ \E data \in BitmexPartials : BitmexPartial(data) /\ UNCHANGED offBook
    \/ Idle("BitMEX") /\ \E data \in BitmexInserts :
            BitmexAction("insert", data) /\ UNCHANGED offBook
    \/ Idle("BitMEX") /\ \E data \in NonEmpty(SeqsUpTo(BitmexUpdates, MaxBatch)) :
            BitmexAction("update", data) /\ UNCHANGED offBook
    \/ Idle("BitMEX") /\ \E data \in NonEmpty(SeqsUpTo(BitmexDeletes, MaxBatch)) :
            BitmexAction("delete", data) /\ UNCHANGED offBook
    \/ Idle("BitMEX") /\ \E data \in SeqsUpTo(BitmexDeletes, 1) :
            BitmexAction("unknown", data) /\ UNCHANGED offBook
    \/ BitmexOther /\ UNCHANGED offBook
    \/ Return /\ UNCHANGED offBook

Spec == Init /\ [][Next]_vars

(* ===================== the scripts with their sink ===================== *)
\* The handlers call the async insert routine without awaiting it: the call
\* runs to its first await inside the handler's step, and each later part runs
\* when the sink answers the awaited chClient.querying, in any order among
\* the suspended calls and interleaved with later messages.
Max(a, b) == IF a >= b THEN a ELSE b

\* rows as the VALUES text carries them: ('${timestamp}', ...)
Stamp(rs, ts) == [i \in 1..Len(rs) |-> [timestamp |-> ts, row |-> rs[i]]]

\* a row a suspended call has still to hand over: the row as built when the
\* call started and, for Binance, the order object it will be read from (its
\* position in orderBook, 0 once spliced out) with that object's quantity
Entry(row, at, quantity) == [row |-> row, at |-> at, quantity |-> quantity]
Fixed(rs) == [i \in 1..Len(rs) |-> Entry(rs[i], 0, 0)]

\* a call suspended at an await: its timestamp argument and its pending rows
Task(ts, pending) ==
    [timestamp |-> ts, receivedAt |-> clock', pending |-> pending,
     latest |-> venue = "BitMEX"]

\* mutant: the timestamp read when the row is handed over
RowTimestampAtInsert(task) == clock

\* '${timestamp}' in the query text: the routine's argument
RowTimestamp(task) == task.timestamp

(* ---- Binance: the bids / asks arrays hold the book's own objects ------ *)
\* positions of the orders `bids` / `asks` refer to: filter, sort, slice
BinanceTopAt(book, side, n) ==
    LET OfSide(i) == book[i].side = side
        Cmp(i, j) == IF side = "Buy" THEN book[j].price - book[i].price
                     ELSE book[i].price - book[j].price
    IN Slice(SortBy(Filter([i \in 1..Len(book) |-> i], OfSide), Cmp), n)

BinanceEntries(book, n, flag) ==
    LET bids == BinanceTopAt(book, "Buy", n)
        asks == BinanceTopAt(book, "Sell", n)
    IN [i \in 1..Len(bids) |->
            Entry(Row(i, "Bid", book[bids[i]].price, BinanceVolume(book[bids[i]], flag)),
                  bids[i], book[bids[i]].quantity)]
       \o [i \in 1..Len(asks) |->
            Entry(Row(i, "Ask", book[asks[i]].price, BinanceVolume(book[asks[i]], flag)),
                  asks[i], book[asks[i]].quantity)]

\* mutant: the row as it was when the call started
BinanceRowFrozen(entry) == entry.row

\* the row a loop pass builds after its await: bid.price, bid.quantity as the
\* object holds them then
BinanceRowNow(entry) ==
    [entry.row EXCEPT !.volume =
        BinanceVolume(BinanceOrder(entry.row.price, entry.quantity,
                                   IF entry.row.order_type = "Bid" THEN "Buy" ELSE "Sell"),
                      cfgVolumeFlag)]

\* what one pass of a handleOrderBook loop does to an object a suspended call
\* refers to: orderBook[index].quantity = quantity is seen through the
\* reference, a splice removes it from the book or moves it down, a push
\* leaves it alone
BinanceSeen(entry, book, side, change) ==
    LET Same(order) == order.price = change[1] /\ order.side = side
        index == FindIndex(book, Same)
    IN IF index = 0 \/ entry.at = 0 THEN entry
       ELSE IF change[2] = ZeroSize
            THEN IF entry.at = index THEN [entry EXCEPT !.at = 0]
                 ELSE IF entry.at > index THEN [entry EXCEPT !.at = entry.at - 1]
                 ELSE entry
            ELSE IF entry.at = index THEN [entry EXCEPT !.quantity = change[2]]
                 ELSE entry

BinanceSeenLoop(entry, book, side, changes) ==
    LET f[i \in 0..Len(changes)] ==
            IF i = 0 THEN entry
            ELSE BinanceSeen(f[i - 1], BinanceLoop(book, side, SubSeq(changes, 1, i - 1)),
                             side, changes[i])
    IN f[Len(changes)]

BinanceSeenApply(entry, book, m) ==
    BinanceSeenLoop(BinanceSeenLoop(entry, book, "Buy", m.bids),
                    BinanceLoop(book, "Buy", m.bids), "Sell", m.asks)

\* the suspended calls after handleOrderBook has applied m to book
BinanceTasksAfter(ts, book, m) ==
    [k \in 1..Len(ts) |->
        [ts[k] EXCEPT !.pending =
            [j \in 1..Len(ts[k].pending) |-> BinanceSeenApply(ts[k].pending[j], book, m)]]]

(* ---- BitMEX: the default branch of the two switches ------------------- *)
\* with a flag that is neither true nor false the bid loop's default branch
\* names the undefined `err` (l. 185); the ask loop's (l. 210) logs, breaks
\* and writes the row with volumeAsk = order.size
BitmexDefaultRaises(book, n) == BitmexTop(book, "Buy", n) # <<>>
BitmexDefaultRows(book, n) ==
    LET asks == BitmexTop(book, "Sell", n)
    IN [i \in 1..Len(asks) |-> Row(i, "Ask", asks[i].price, Num(asks[i].size))]

(* ---- what a step does at the sink ------------------------------------- *)
\* nothing was handed over
Quiet ==
    /\ out' = [NoOut EXCEPT !.prevMaxTs = maxTs, !.preFailed = lastFailed]
    /\ maxTs' = maxTs

\* chClient.querying was called with these rows
Handed(stamped, expect, received) ==
    /\ out' = [NoOut EXCEPT !.rows = stamped, !.expect = expect,
                            !.receivedAt = received, !.prevMaxTs = maxTs,
                            !.preFailed = lastFailed]
    /\ maxTs' = IF stamped = <<>> THEN maxTs ELSE Max(maxTs, stamped[1].timestamp)

\* the routine threw (ReferenceError: err is not defined) with n rows unwritten;
\* an unhandled rejection terminates the process or only warns, by Node version
Raised(unhandled, n) ==
    /\ out' = [NoOut EXCEPT !.rejected = TRUE, !.unhandled = unhandled, !.dropped = n,
                            !.prevMaxTs = maxTs, !.preFailed = lastFailed]
    /\ maxTs' = maxTs
    /\ crashed' \in (IF unhandled THEN BOOLEAN ELSE {FALSE})

\* kucoin50.js insertOrderBooktoDB: one query with every row
KucoinInsertCall ==
    /\ Len(tasks) < MaxTasks
    /\ Handed(Stamp(rows', clock'), rows', clock')
    /\ tasks' = Append(tasks, Task(clock', <<>>))
    /\ UNCHANGED <<flagValid, crashed, lastFailed>>

\* Kraken insertOrderBookToDB: the first level reaches the switch's default
\* branch, whose console.error names the undefined `err`; handleOrderBook's
\* .catch(console.error) takes the rejection.  Otherwise one query.
KrakenInsertCall ==
    IF flagValid \/ rows' = <<>>
    THEN /\ Len(tasks) < MaxTasks
         /\ Handed(Stamp(rows', clock'), rows', clock')
         /\ tasks' = Append(tasks, Task(clock', <<>>))
         /\ UNCHANGED <<flagValid, crashed, lastFailed>>
    ELSE /\ Raised(FALSE, Len(rows'))
         /\ UNCHANGED <<flagValid, tasks, lastFailed>>

\* binance20.js insertOrderBookToDB up to its first await
BinanceInsertCall(m) ==
    LET ts == BinanceTasksAfter(tasks, orderBook, m)
        entries == BinanceEntries(orderBook', cfgNumLevels, cfgVolumeFlag)
    IN IF entries = <<>>
       THEN /\ Quiet
            /\ tasks' = ts
            /\ UNCHANGED <<flagValid, crashed, lastFailed>>
       ELSE IF flagValid
       THEN /\ Len(tasks) < MaxTasks
            /\ Handed(Stamp(<<entries[1].row>>, clock'), <<entries[1].row>>, clock')
            /\ tasks' = Append(ts, Task(clock', Tail(entries)))
            /\ UNCHANGED <<flagValid, crashed, lastFailed>>
       ELSE /\ Raised(TRUE, Len(entries))
            /\ tasks' = ts
            /\ UNCHANGED <<flagValid, lastFailed>>

\* bitmex25.js insertOrderBookToDB up to its first await
BitmexInsertCall ==
    LET older == [k \in 1..Len(tasks) |-> [tasks[k] EXCEPT !.latest = FALSE]]
        rs == IF flagValid THEN rows' ELSE BitmexDefaultRows(orderBook', cfgNumLevels)
    IN IF ~inserted'
       THEN /\ Quiet
            /\ UNCHANGED <<flagValid, tasks, crashed, lastFailed>>
       ELSE IF ~flagValid /\ BitmexDefaultRaises(orderBook', cfgNumLevels)
       THEN /\ Raised(TRUE, Len(rows'))
            /\ tasks' = older
            /\ lastFailed' = FALSE
            /\ UNCHANGED flagValid
       ELSE IF rs = <<>>
       THEN /\ Quiet
            /\ tasks' = older
            /\ lastFailed' = FALSE
            /\ UNCHANGED <<flagValid, crashed>>
       ELSE /\ Len(tasks) < MaxTasks
            /\ Handed(Stamp(<<rs[1]>>, clock'), <<rs[1]>>, clock')
            /\ tasks' = Append(older, Task(clock', Fixed(Tail(rs))))
            /\ lastFailed' = FALSE
            /\ UNCHANGED <<flagValid, crashed>>

\* a handler that does not call the insert routine
NoInsertCall ==
    /\ Quiet
    /\ UNCHANGED <<flagValid, tasks, crashed, lastFailed>>

\* const currentTimestamp = moment().format(...): the k-th message handler
\* reads time k (two messages within one millisecond are not modelled)
ReadClock ==
    /\ clock < MaxClock
    /\ clock' = clock + 1

\* the sink answers the query suspended call k awaits: the call resumes and
\* hands over its next row or ends.  A rejected query is caught in Kucoin
\* (l. 169-174) and Kraken (l. 207-211); in Binance and BitMEX it ends the call
\* with a rejection nothing handles.
SinkAnswers(k, ok) ==
    /\ pc = "idle"
    /\ ~crashed
    /\ k \in 1..Len(tasks)
    /\ pc' = "resumed"
    /\ msg' = NoMsg
    /\ preBook' = orderBook
    /\ preLast' = lastInsertedOrderBook
    /\ threw' = FALSE
    /\ inserted' = FALSE
    /\ rows' = <<>>
    /\ LET task == tasks[k]
           unhandled == venue \in {"Binance", "BitMEX"}
       IN IF ok
          THEN /\ IF task.pending = <<>>
                  THEN /\ Quiet
                       /\ tasks' = Splice(tasks, k)
                  ELSE LET entry == task.pending[1]
                           row == IF venue = "Binance" THEN BinanceRowNow(entry)
                                  ELSE entry.row
                       IN /\ Handed(<<[timestamp |-> RowTimestamp(task), row |-> row]>>,
                                    <<entry.row>>, task.receivedAt)
                          /\ tasks' = [tasks EXCEPT ![k].pending = Tail(@)]
               /\ UNCHANGED <<crashed, lastFailed>>
          ELSE /\ out' = [NoOut EXCEPT !.failed = TRUE, !.rejected = unhandled,
                                       !.unhandled = unhandled,
                                       !.dropped = Len(task.pending),
                                       !.prevMaxTs = maxTs, !.preFailed = lastFailed]
               /\ maxTs' = maxTs
               /\ tasks' = Splice(tasks, k)
               /\ crashed' \in (IF unhandled THEN BOOLEAN ELSE {FALSE})
               /\ lastFailed' = (lastFailed \/ (venue = "BitMEX" /\ task.latest))
    /\ UNCHANGED <<config, orderBook, lastInsertedOrderBook, snapshotApplied, early,
                   flagValid, clock, reference>>

\* the callback or the resumed call has returned to the event loop
SinkReturn ==
    /\ pc \in {"handled", "resumed"}
    /\ ~crashed
    /\ pc' = "idle"
    /\ msg' = NoMsg
    /\ preBook' = <<>>
    /\ preLast' = <<>>
    /\ threw' = FALSE
    /\ inserted' = FALSE
    /\ rows' = <<>>
    /\ out' = NoOut
    /\ UNCHANGED <<config, orderBook, lastInsertedOrderBook, snapshotApplied, early,
                   flagValid, clock, tasks, maxTs, crashed, lastFailed, reference>>

\* an uncaught TypeError in the message listener terminates the process
BinanceOtherCrash ==
    /\ BinanceOther
    /\ Quiet
    /\ crashed' = TRUE
    /\ UNCHANGED <<flagValid, tasks, lastFailed>>

\* messages with a single event
OneEvent(S) == {m \in S : Len(m.asks) + Len(m.bids) = 1}

\* script v is running and waiting for its next event
Waiting(v) == Idle(v) /\ ~crashed

SinkInit ==
    /\ Loaded
    /\ flagValid \in (IF venue = "Kucoin" THEN {TRUE} ELSE BOOLEAN)
    /\ ~flagValid => ~cfgVolumeFlag

SinkNext ==
    \/ Waiting("Kucoin") /\ \E data \in KucoinSnapshots :
            KucoinSnapshot(data) /\ NoInsertCall /\ UNCHANGED <<clock, reference>>
    \/ Waiting("Kucoin") /\ ReadClock /\ \E m \in OneEvent(KucoinUpdateMsgs) :
            KucoinUpdate(m) /\ KucoinInsertCall /\ UNCHANGED reference
    \/ Waiting("Kucoin") /\ ReadClock /\ KucoinOther /\ NoInsertCall /\ UNCHANGED reference
    \/ Waiting("Binance") /\ \E data \in Snapshots :
            BinanceSnapshot(data) /\ NoInsertCall /\ UNCHANGED <<clock, reference>>
    \/ Waiting("Binance") /\ ReadClock /\ \E m \in OneEvent(UpdateMsgs) :
            BinanceUpdate(m) /\ BinanceInsertCall(m) /\ UNCHANGED reference
    \/ Waiting("Binance") /\ ReadClock /\ BinanceOtherCrash /\ UNCHANGED reference
    \/ Waiting("Kraken") /\ ReadClock /\ \E data \in Snapshots :
            KrakenSnapshot(data) /\ KrakenInsertCall /\ UNCHANGED reference
    \/ Waiting("Kraken") /\ ReadClock /\ \E m \in OneEvent(UpdateMsgs) :
            KrakenUpdate(m) /\ KrakenInsertCall /\ UNCHANGED reference
    \/ Waiting("Kraken") /\ ReadClock /\ KrakenOther /\ KrakenInsertCall /\ UNCHANGED reference
    \/ Waiting("BitMEX") /\ ReadClock /\ \E data \in BitmexPartials :
            BitmexPartial(data) /\ BitmexInsertCall /\ UNCHANGED reference
    \/ Waiting("BitMEX") /\ ReadClock /\ \E data \in SeqsUpTo(BitmexOrders, 1) \ {<<>>} :
            BitmexAction("insert", data) /\ BitmexInsertCall /\ UNCHANGED reference
    \/ Waiting("BitMEX") /\ ReadClock /\ \E data \in SeqsUpTo(BitmexUpdates, 1) \ {<<>>} :
            BitmexAction("update", data) /\ BitmexInsertCall /\ UNCHANGED reference
    \/ Waiting("BitMEX") /\ ReadClock /\ \E data \in SeqsUpTo(BitmexDeletes, 1) \ {<<>>} :
            BitmexAction("delete", data) /\ BitmexInsertCall /\ UNCHANGED reference
    \/ Waiting("BitMEX") /\ ReadClock /\ BitmexOther /\ NoInsertCall /\ UNCHANGED reference
    \/ \E k \in 1..MaxTasks : SinkAnswers(k, TRUE)
    \/ \E k \in 1..MaxTasks : SinkAnswers(k, FALSE)
    \/ SinkReturn

SinkSpec == SinkInit /\ [][SinkNext]_vars

(* ============ BitMEX rows whose price is not positive ================== *)
\* insertOrderBookToDB reads order.price as the message carries it and tests
\* it nowhere; the prices below are the ones a division has to care about
NonPositivePrices == {0 - 1, 0}

\* a row of a partial with any price, positive or not
BitmexWireOrders ==
    {[id |-> i, side |-> s, size |-> z, price |-> p] :
        i \in Ids, s \in Sides, z \in Sizes, p \in NonPositivePrices \cup Prices}
BitmexWirePartials == {d \in SeqsUpTo(BitmexWireOrders, MaxBook) : DistinctIds(d)}

\* bitmex25.js with baseVolume = true
PriceInit ==
    /\ Loaded
    /\ venue = "BitMEX"
    /\ cfgVolumeFlag = TRUE
    /\ flagValid = TRUE

\* the script subscribes once (l. 73-78) and BitMEX answers a subscription
\* with one partial; the insert routine then runs on that book
PriceNext ==
    \/ Waiting("BitMEX") /\ ~snapshotApplied /\ ReadClock
            /\ \E data \in BitmexWirePartials : BitmexPartial(data) /\ BitmexInsertCall /\ UNCHANGED reference
    \/ \E k \in 1..MaxTasks : SinkAnswers(k, TRUE)
    \/ \E k \in 1..MaxTasks : SinkAnswers(k, FALSE)
    \/ SinkReturn

PriceSpec == PriceInit /\ [][PriceNext]_vars

(* ============ kucoin50.js beside an untruncated book =================== *)
\* The same snapshot and the same change events (l. 128-138: a size of "0"
\* removes the price, any other size sets it) applied to a price-keyed map
\* that is never cut; its best KucoinDepth levels are what slice(0, 50) of
\* the sorted levels would keep.
ReferenceSnapshot(data) == [asks |-> FromPairs(data.asks), bids |-> FromPairs(data.bids)]

ReferenceApply(ref, m) ==
    [asks |-> KrakenSide(ref.asks, m.asks), bids |-> KrakenSide(ref.bids, m.bids)]

\* the best KucoinDepth levels of one side of the map, as [price, size] pairs
ReferenceBest(ref, type) ==
    LET Cmp(a, b) == KucoinCmp(type, a, b)
    IN Slice(SortBy(ToPairs(ref[type]), Cmp), KucoinDepth)

TruncationInit ==
    /\ Loaded
    /\ venue = "Kucoin"
    /\ flagValid = TRUE

TruncationNext ==
    \/ Idle("Kucoin") /\ \E data \in KucoinSnapshots :
            /\ KucoinSnapshot(data)
            /\ reference' = ReferenceSnapshot(data)
            /\ UNCHANGED sinkVars
    \/ Idle("Kucoin") /\ \E m \in OneEvent(KucoinUpdateMsgs) :
            /\ KucoinUpdate(m)
            /\ reference' = ReferenceApply(reference, m)
            /\ UNCHANGED sinkVars
    \/ KucoinOther /\ UNCHANGED offBook
    \/ Return /\ UNCHANGED offBook

TruncationSpec == TruncationInit /\ [][TruncationNext]_vars

(* ============ Binance and BitMEX with a sink that answers ============== *)
\* the query awaited by the call that carries timestamp t returns: the `await
\* chClient.querying(...)` of its loop pass completes and the loop goes on
Drain(t) ==
    \E k \in 1..MaxTasks : k <= Len(tasks) /\ tasks[k].timestamp = t /\ SinkAnswers(k, TRUE)

LiveInit ==
    /\ Loaded
    /\ venue \in {"Binance", "BitMEX"}
    /\ flagValid = TRUE

\* the messages of SinkNext; every query succeeds
LiveNext ==
    \/ Waiting("Binance") /\ \E data \in Snapshots :
            BinanceSnapshot(data) /\ NoInsertCall /\ UNCHANGED <<clock, reference>>
    \/ Waiting("Binance") /\ ReadClock /\ \E m \in OneEvent(UpdateMsgs) :
            BinanceUpdate(m) /\ BinanceInsertCall(m) /\ UNCHANGED reference
    \/ Waiting("Binance") /\ ReadClock /\ BinanceOtherCrash /\ UNCHANGED reference
    \/ Waiting("BitMEX") /\ ReadClock /\ \E data \in BitmexPartials :
            BitmexPartial(data) /\ BitmexInsertCall /\ UNCHANGED reference
    \/ Waiting("BitMEX") /\ ReadClock /\ \E data \in SeqsUpTo(BitmexOrders, 1) \ {<<>>} :
            BitmexAction("insert", data) /\ BitmexInsertCall /\ UNCHANGED reference
    \/ Waiting("BitMEX") /\ ReadClock /\ \E data \in SeqsUpTo(BitmexUpdates, 1) \ {<<>>} :
            BitmexAction("update", data) /\ BitmexInsertCall /\ UNCHANGED reference
    \/ Waiting("BitMEX") /\ ReadClock /\ \E data \in SeqsUpTo(BitmexDeletes, 1) \ {<<>>} :
            BitmexAction("delete", data) /\ BitmexInsertCall /\ UNCHANGED reference
    \/ Waiting("BitMEX") /\ ReadClock /\ BitmexOther /\ NoInsertCall /\ UNCHANGED reference
    \/ \E t \in 1..MaxClock : Drain(t)
    \/ SinkReturn

\* a callback that has run returns to the event loop, and the sink answers
\* every query, whatever else keeps arriving
LiveSpec ==
    /\ LiveInit
    /\ [][LiveNext]_vars
    /\ WF_vars(SinkReturn)
    /\ \A t \in 1..MaxClock : SF_vars(Drain(t))

(* ============================== claims ================================= *)
PriceVenues == {"Kucoin", "Binance", "Kraken"}
Handled == pc = "handled"

\* the rows of one side, in the order they were built
IsAsk(row) == row.order_type \in {"asks", "Ask", "ask"}
IsBid(row) == row.order_type \in {"bids", "Bid", "bid"}
AskRows == Filter(rows, IsAsk)
BidRows == Filter(rows, IsBid)

\* the [price, size] levels a price-keyed book holds on one side ("asks" or
\* "bids"), in the book's own order
LevelsOf(book, type) ==
    CASE venue = "Kucoin" -> book[type]
      [] venue = "Kraken" -> ToPairs(book[type])
      [] venue = "Binance" ->
            LET side == IF type = "asks" THEN "Sell" ELSE "Buy"
                OfSide(order) == order.side = side
                mine == Filter(book, OfSide)
            IN [i \in 1..Len(mine) |-> <<mine[i].price, mine[i].quantity>>]

\* the sizes held at one price, one per level at that price
SizesAt(book, type, price) ==
    LET levels == LevelsOf(book, type)
    IN [i \in {j \in 1..Len(levels) : levels[j][1] = price} |-> levels[i][2]]
CountAt(book, type, price) == Cardinality(DOMAIN SizesAt(book, type, price))

\* event i is the last one of its side of the message that names its price
LastFor(events, i) == \A j \in (i + 1)..Len(events) : events[j][1] # events[i][1]

Types == {"asks", "bids"}

C2_AtMostNumLevelRows ==
    (Handled /\ inserted) =>
        /\ Len(AskRows) <= cfgNumLevels
        /\ Len(BidRows) <= cfgNumLevels
        /\ \A i \in 1..Len(rows) : rows[i].order_level \in 1..cfgNumLevels

\* C3: when one side of an update message holds two non-zero upserts for one
\* price (the second being the last event for it), the book then holds exactly
\* one level at that price on that side, with the second upsert's size.
C3_LastWriteWins ==
    (Handled /\ venue \in PriceVenues /\ msg.type = "update") =>
        \A type \in Types : \A i, j \in 1..Len(msg[type]) :
            (/\ i < j
             /\ msg[type][i][1] = msg[type][j][1]
             /\ msg[type][i][2] # ZeroSize
             /\ msg[type][j][2] # ZeroSize
             /\ LastFor(msg[type], j)) =>
                /\ CountAt(orderBook, type, msg[type][j][1]) = 1
                /\ \A k \in DOMAIN SizesAt(orderBook, type, msg[type][j][1]) :
                        SizesAt(orderBook, type, msg[type][j][1])[k] = msg[type][j][2]

\* every event of the message deletes something the book did not hold
DeletesAbsent ==
    \/ /\ venue \in PriceVenues /\ msg.type = "update"
       /\ \A type \in Types : \A i \in 1..Len(msg[type]) :
            /\ msg[type][i][2] = ZeroSize
            /\ CountAt(preBook, type, msg[type][i][1]) = 0
    \/ /\ venue = "BitMEX" /\ msg.type = "delete"
       /\ \A i \in 1..Len(msg.data) : \A k \in 1..Len(preBook) :
            preBook[k].id # msg.data[i].id

\* C4: a message that only deletes prices (ids, for BitMEX) the book does not
\* hold leaves the book as it was, and the handler does not throw.
C4_DeleteAbsentNoOp ==
    (Handled /\ DeletesAbsent) => (orderBook = preBook /\ ~threw)

\* such a message was handled while the book held something
C4_Witness ==
    /\ Handled /\ DeletesAbsent
    /\ venue \in {"Binance", "BitMEX"} /\ Len(preBook) > 0

\* C5: after a message whose only event is (price, size) on one side: a zero
\* size leaves no level at that price on that side; any other size leaves
\* exactly one level there, with that size.
C5_EventApplied ==
    (Handled /\ venue \in PriceVenues /\ msg.type = "update") =>
        \A type \in Types :
            (Len(msg.asks) + Len(msg.bids) = 1 /\ Len(msg[type]) = 1) =>
                LET price == msg[type][1][1]
                    size == msg[type][1][2]
                    held == SizesAt(orderBook, type, price)
                IN IF size = ZeroSize THEN DOMAIN held = {}
                   ELSE Cardinality(DOMAIN held) = 1 /\ \A k \in DOMAIN held : held[k] = size

\* what a snapshot leaves in an empty book, per side: Kucoin keeps the best
\* KucoinDepth entries of its REST snapshot, the others keep every entry
SnapshotLevels(type) ==
    IF venue = "Kucoin" THEN Slice(msg[type], KucoinDepth) ELSE msg[type]

\* C6: right after a snapshot was applied (REST response, as/bs message,
\* partial), the book holds the snapshot's levels / orders and nothing else,
\* whatever it held before.
C6_SnapshotReplaces ==
    /\ (Handled /\ venue \in PriceVenues /\ msg.type = "snapshot") =>
            \A type \in Types :
                /\ Len(LevelsOf(orderBook, type)) = Len(SnapshotLevels(type))
                /\ Range(LevelsOf(orderBook, type)) = Range(SnapshotLevels(type))
    /\ (Handled /\ venue = "BitMEX" /\ msg.type = "partial") => orderBook = msg.data

\* C7: no two orders of the BitMEX book have the same id.
C7_UniqueIds == venue = "BitMEX" => DistinctIds(orderBook)

\* C8: after a BitMEX delete message, no order with a deleted id is left in
\* the book.
C8_DeleteRemovesId ==
    (Handled /\ venue = "BitMEX" /\ msg.type = "delete") =>
        \A i \in 1..Len(msg.data) : \A k \in 1..Len(orderBook) :
            orderBook[k].id # msg.data[i].id

\* the events of the update message that supply field f for the order o
Supplying(o, f) ==
    {i \in 1..Len(msg.data) : msg.data[i].id = o.id /\ f \in DOMAIN msg.data[i]}
Latest(S) == CHOOSE i \in S : \A j \in S : j <= i

\* position k holds the order an update for its id reaches: the first with that id
Reached(book, k) == \A j \in 1..(k - 1) : book[j].id # book[k].id

\* C9: after a BitMEX update message the book has as many orders as before;
\* the order reached by an event takes every field the message supplies for
\* its id (the last supplied value) and keeps its other fields; every other
\* order is as it was (so an update for an absent id changes nothing); the
\* handler does not throw.
C9_UpdateMerges ==
    (Handled /\ venue = "BitMEX" /\ msg.type = "update") =>
        /\ ~threw
        /\ Len(orderBook) = Len(preBook)
        /\ \A k \in 1..Len(preBook) :
            /\ DOMAIN orderBook[k] = DOMAIN preBook[k]
            /\ \A f \in DOMAIN preBook[k] :
                orderBook[k][f] =
                    IF Reached(preBook, k) /\ Supplying(preBook[k], f) # {}
                    THEN msg.data[Latest(Supplying(preBook[k], f))][f]
                    ELSE preBook[k][f]

\* an update that supplied only the size changed the size of a stored order
\* and left another order alone
C9_Witness ==
    /\ Handled /\ venue = "BitMEX" /\ msg.type = "update"
    /\ Len(preBook) = 2 /\ Len(msg.data) = 1
    /\ DOMAIN msg.data[1] = {"id", "size"}
    /\ \E k \in 1..2 : preBook[k].id = msg.data[1].id /\ orderBook[k].size # preBook[k].size
    /\ \E k \in 1..2 : preBook[k].id # msg.data[1].id

\* the rows of the top-N projection of a BitMEX book
Projection(book) == BitmexRows(book, cfgNumLevels, cfgVolumeFlag)

\* C10: a BitMEX message that reaches the insert routine gets past its gate
\* and has the rows of the book's top-N projection built when it is the first
\* call (nothing inserted before) or when that projection differs from the
\* projection of the last inserted book.
C10_GateEmits ==
    (Handled /\ venue = "BitMEX" /\ msg.type # "other") =>
        ((preLast = <<>> \/ Projection(orderBook) # Projection(preLast[1])) =>
            (inserted /\ rows = Projection(orderBook)))

\* a later call whose projection differs from the last inserted one emitted
C10_Witness ==
    /\ Handled /\ venue = "BitMEX" /\ msg.type = "update"
    /\ preLast # <<>>
    /\ Projection(preLast[1]) # <<>>
    /\ Projection(orderBook) # Projection(preLast[1])
    /\ inserted /\ rows # <<>>

\* C11: a BitMEX message that leaves the top-N projection equal to the
\* projection of the last inserted book hands no row to the sink.
C11_GateSuppresses ==
    (Handled /\ venue = "BitMEX" /\ msg.type # "other" /\ preLast # <<>>
        /\ Projection(orderBook) = Projection(preLast[1])) => rows = <<>>

\* the message is an update batch (not a snapshot, not a control message)
IsUpdateBatch ==
    \/ venue \in PriceVenues /\ msg.type = "update"
    \/ venue = "BitMEX" /\ msg.type \in {"insert", "update", "delete"}

\* C16: an update batch handled before any snapshot was applied does not
\* change the book and builds no row for the sink.
C16_NoUpdateBeforeSnapshot ==
    (Handled /\ IsUpdateBatch /\ ~snapshotApplied) =>
        (orderBook = preBook /\ rows = <<>>)

\* the [price, size] levels the book holds for the side a row names
LevelsForRow(row) ==
    IF venue = "BitMEX"
    THEN LET OfSide(order) == order.side = (IF IsBid(row) THEN "Buy" ELSE "Sell")
             mine == Filter(orderBook, OfSide)
         IN {<<mine[i].price, mine[i].size>> : i \in 1..Len(mine)}
    ELSE Range(LevelsOf(orderBook, IF IsBid(row) THEN "bids" ELSE "asks"))

\* the volume to persist for a level: base-native venues multiply by the
\* price for quote volume, quote-native BitMEX divides by it for base volume
NormalisedVolume(level) ==
    IF venue = "BitMEX"
    THEN IF cfgVolumeFlag THEN Quot(level[2], level[1]) ELSE Num(level[2])
    ELSE IF cfgVolumeFlag THEN Num(level[2]) ELSE Num(level[2] * level[1])

\* C17: in Binance, Kraken and BitMEX every row built by an insert call is the
\* row of a level the book holds on that side at the row's price, and its
\* volume is that level's size normalised by the baseVolume flag.
C17_VolumeNormalised ==
    (Handled /\ inserted /\ venue \in {"Binance", "Kraken", "BitMEX"}) =>
        \A i \in 1..Len(rows) :
            \E level \in LevelsForRow(rows[i]) :
                /\ level[1] = rows[i].price
                /\ rows[i].volume = NormalisedVolume(level)

\* quote volume was computed for a base-native level with price and size
\* above one, and base volume for a BitMEX order whose size its price does
\* not divide
C17_Witness ==
    /\ Handled /\ inserted /\ Len(rows) > 0
    /\ \/ /\ venue \in {"Binance", "Kraken"} /\ ~cfgVolumeFlag
          /\ rows[1].price = 2 /\ rows[1].volume = Num(4)
       \/ /\ venue = "BitMEX" /\ cfgVolumeFlag
          /\ rows[1].price = 2 /\ rows[1].volume = <<1, 2>>

(* ------------------- claims about the sink side ------------------------ *)
\* a suspended insert call has just been resumed by the sink's answer
Resumed == pc = "resumed"

\* C12: when the write of the last inserted BitMEX book failed, a message that
\* yields that same book, with rows to write, hands its rows to the sink.
C12_RetryAfterFailedWrite ==
    (Handled /\ venue = "BitMEX" /\ flagValid /\ msg.type # "other"
        /\ out.preFailed /\ preLast # <<>> /\ orderBook = preLast[1]
        /\ Projection(orderBook) # <<>>) => out.rows # <<>>

\* C13: every row handed to the sink carries the time at which the message
\* that produced it was received, however late it is handed over.
C13_ReceiptTimestamp ==
    \A i \in 1..Len(out.rows) : out.rows[i].timestamp = out.receivedAt

\* a row was handed over by a resumed call after a later message was received
C13_Witness ==
    /\ Resumed /\ out.rows # <<>>
    /\ out.receivedAt < clock

\* C14: no row handed to the sink is older than a row handed over before it.
C14_TimestampOrder ==
    \A i \in 1..Len(out.rows) : out.rows[i].timestamp >= out.prevMaxTs

\* C15: a row Binance hands to the sink has the price and volume of the book
\* as it was right after the row's message was applied.
C15_RowsOfTheirMessage ==
    venue = "Binance" =>
        \A i \in 1..Len(out.rows) :
            /\ out.rows[i].row.price = out.expect[i].price
            /\ out.rows[i].row.volume = out.expect[i].volume

\* C18: after a failed sink write the book is what it was and the script is
\* still running, so that later messages are applied as they would have been.
C18_FailureLeavesBook ==
    (Resumed /\ out.failed) => (orderBook = preBook /\ ~crashed)

\* C19: a failed sink write is caught inside the insert routine: no rejection
\* escapes it and no further row of the same message is lost.
C19_FailureCaught ==
    (Resumed /\ out.failed) => (~out.rejected /\ out.dropped = 0)

\* C20: with a volume flag that is neither true nor false (Binance, Kraken,
\* BitMEX) a message hands no row to the sink and the insert routine does
\* not raise.
C20_InvalidFlagSkips ==
    (Handled /\ ~flagValid /\ venue \in {"Binance", "Kraken", "BitMEX"}) =>
        (out.rows = <<>> /\ ~out.rejected)

\* C21: with baseVolume = true, BitMEX hands no row to the sink for a level
\* whose price is zero or negative, and handling such a level raises nothing.
C21_NonPositivePriceSkipped ==
    (venue = "BitMEX" /\ cfgVolumeFlag /\ flagValid) =>
        /\ \A i \in 1..Len(out.rows) : out.rows[i].row.price > 0
        /\ (~out.failed => ~out.rejected)

\* the message is neither a snapshot nor a recognised update of its venue
IsUnrecognised == msg.type \in {"other", "unknown"}

\* C22: in every venue script, a message that is neither a snapshot nor a
\* recognised update leaves the book unchanged, and the handler returns
\* normally.
C22_UnrecognisedDropped ==
    (Handled /\ IsUnrecognised) => (orderBook = preBook /\ ~threw)

\* the [price, size] levels of one side of the book, best first: asks by
\* lowest price, bids by highest
BestLevels(book, type) ==
    LET OfSide(order) == order.side = (IF type = "asks" THEN "Sell" ELSE "Buy")
        mine == Filter(book, OfSide)
        levels == IF venue = "BitMEX"
                  THEN [i \in 1..Len(mine) |-> <<mine[i].price, mine[i].size>>]
                  ELSE LevelsOf(book, type)
        Cmp(a, b) == IF type = "asks" THEN a[1] - b[1] ELSE b[1] - a[1]
    IN SortBy(levels, Cmp)

\* project(side, n): the best cfgNumLevels levels of the side
Projected(book, type) == Slice(BestLevels(book, type), cfgNumLevels)

\* the volume a row carries for a level; Kucoin has no baseVolume flag
LevelVolume(level) ==
    IF venue = "Kucoin" THEN Num(level[2]) ELSE NormalisedVolume(level)

\* C23: every emission builds, for each side, exactly one row per projected
\* level; the i-th row of the side has order_level i and the price and volume
\* of the i-th best level of that side.
C23_RowShape ==
    (Handled /\ inserted) =>
        \A type \in Types :
            LET side == IF type = "asks" THEN AskRows ELSE BidRows
                levels == Projected(orderBook, type)
            IN /\ Len(side) = Len(levels)
               /\ \A i \in 1..Len(side) :
                    /\ side[i].order_level = i
                    /\ side[i].price = levels[i][1]
                    /\ side[i].volume = LevelVolume(levels[i])

\* C24: after the snapshot and any sequence of update events, each side of
\* the book Kucoin stores (and emits) is the best KucoinDepth levels of the
\* book the same events leave in an untruncated price-keyed map.
C24_TruncationFaithful ==
    (venue = "Kucoin" /\ snapshotApplied) =>
        \A type \in Types : orderBook[type] = ReferenceBest(reference, type)

\* C25: the Binance book never holds two entries with the same price and the
\* same side, however the REST response and the depth messages interleave.
C25_BinanceOnePerPrice ==
    venue = "Binance" =>
        \A i, j \in 1..Len(orderBook) :
            (orderBook[i].price = orderBook[j].price
                /\ orderBook[i].side = orderBook[j].side) => i = j

\* the insert routine issued a query: Kucoin and Kraken send one query
\* whatever it holds, Binance and BitMEX one per row
WriteIssued == IF venue \in {"Kucoin", "Kraken"} THEN inserted ELSE rows # <<>>

\* C26: in every venue script, a message that is neither a snapshot nor a
\* recognised update builds no row and issues no write to the sink.
C26_UnrecognisedSilent ==
    (Handled /\ IsUnrecognised) => (rows = <<>> /\ ~WriteIssued)

\* C27: in the price-keyed venues an update message with events for one side
\* only leaves the levels of the other side exactly as they were.
C27_OtherSideUntouched ==
    (Handled /\ venue \in PriceVenues /\ msg.type = "update") =>
        /\ msg.bids = <<>> => LevelsOf(orderBook, "bids") = LevelsOf(preBook, "bids")
        /\ msg.asks = <<>> => LevelsOf(orderBook, "asks") = LevelsOf(preBook, "asks")

\* an asks-only message deleted the Binance ask at a price at which a bid,
\* stored in front of it, stayed
C27_Witness ==
    /\ Handled /\ venue = "Binance" /\ msg.type = "update"
    /\ msg.bids = <<>> /\ Len(msg.asks) = 1 /\ msg.asks[1][2] = ZeroSize
    /\ Len(preBook) = 2
    /\ preBook[1].side = "Buy" /\ preBook[1].price = msg.asks[1][1]
    /\ preBook[2].side = "Sell" /\ preBook[2].price = msg.asks[1][1]
    /\ orderBook = <<preBook[1]>>

\* C28: in BitMEX a call that passes the gate assigns the book's content to
\* lastInsertedOrderBook before any awaited write; no other step changes it,
\* whatever is done to the live book; so a message that yields the last
\* inserted book again passes no gate and hands no row, also while writes of
\* the earlier message are in flight.
C28_LastInsertedIsLastPassed ==
    venue = "BitMEX" =>
        /\ (Handled /\ inserted) => lastInsertedOrderBook = <<orderBook>>
        /\ ((Handled /\ ~inserted) \/ Resumed) => lastInsertedOrderBook = preLast
        /\ (Handled /\ msg.type # "other" /\ preLast # <<>> /\ orderBook = preLast[1]) =>
                (~inserted /\ out.rows = <<>>)

\* a message that left the book as last inserted was handled while a write
\* of the earlier message was still awaited
C28_Witness ==
    /\ Handled /\ venue = "BitMEX" /\ msg.type \in {"update", "delete"}
    /\ preLast # <<>> /\ Len(orderBook) > 0 /\ orderBook = preLast[1]
    /\ tasks # <<>> /\ tasks[1].pending # <<>>
    /\ ~inserted /\ out.rows = <<>>

\* the emission of the message received at t has n rows still to hand over
PendingRows(t, n) ==
    \E k \in 1..Len(tasks) : tasks[k].timestamp = t /\ Len(tasks[k].pending) = n

\* most rows an emission has left once its first row is handed over
MaxPending == 2 * MaxNumLevel - 1

\* C29: in Binance and BitMEX, with a sink that answers every query, an
\* emission with n rows still to hand over reaches the step in which its
\* call is resumed and hands over the next of them, leaving n - 1: so every
\* emission hands over all its rows, whatever messages arrive meanwhile.
C29_EmissionCompletes ==
    \A t \in 1..MaxClock : \A n \in 1..MaxPending :
        PendingRows(t, n) ~>
            (Resumed /\ out.rows # <<>> /\ out.receivedAt = t /\ PendingRows(t, n - 1))

====
